---- MODULE Spec2Model ----
(***************************************************************************)
(* Model of gemini_chatbot.py: the API-key format validator, the setup of  *)
(* the GeminiChatbot session, send_message and the run_chat_loop CLI loop. *)
(*                                                                         *)
(* Strings the program inspects character by character (the API key and    *)
(* the input lines) are sequences of one-character strings, so that        *)
(* str.strip, str.lower and re.match are computed, not assumed.            *)
(***************************************************************************)
EXTENDS Integers, Sequences, FiniteSets, TLC

VARIABLES
    api_key,      \* self.api_key: the credential handed to GeminiChatbot.__init__
    key_ok,       \* what validate_api_key returned: "unchecked", "valid", "invalid"
    pc,           \* "start", "input" (blocked in input()), "sending" (blocked in chat.send_message), "done"
    chat,         \* self.chat: NoChat (None) or the session handle [id, history]
    exit_code,    \* Running while the process lives, else the process exit status
    cause,        \* why the process ended ("none" while it runs)
    line,         \* the raw line the last input() call returned
    request,      \* the last request handed to the remote service: [sid, history, text]
    response,     \* the value send_message last returned to the loop (ResponseNone for None)
    raised,       \* the exception the last step's SDK call or input() raised (NoExc if none)
    raised_by,    \* the call that raised it: an SDK call name, "input", or "none"
    out,          \* what the last step printed
    calls,        \* for each SDK call: "none" (never made), "ok" or "raised" (last outcome)
    n_sends,      \* number of chat.send_message calls made so far
    n_sessions,   \* number of sessions created so far (session ids are 1..n_sessions)
    reset_mark,   \* n_sends at the moment self.chat was last bound to a new session
    n_done,       \* number of chat.send_message calls that have returned or raised
    environ,      \* os.environ["GEMINI_API_KEY"]: EnvUnset or the value
    prompt_key,   \* the line the user types at the API-key prompt
    save_answer,  \* the line the user types at the save question
    dotenv,       \* the .env file: the entries appended so far
    returned      \* what get_api_key returned (NotReturned before it has)

\* the environment, the user's answers to get_api_key, and its results
envvars == <<environ, prompt_key, save_answer, dotenv, returned>>

vars == <<api_key, key_ok, pc, chat, exit_code, cause, line, request, response,
          raised, raised_by, out, calls, n_sends, n_sessions, reset_mark, n_done,
          envvars>>

(***************************************************************************)
(* Bounds of the model.                                                    *)
(***************************************************************************)
\* at most this many messages are forwarded to the remote service in one run
MaxTurns == 2
\* at most this many sessions are created in one run (setup plus resets)
MaxSessions == 2
\* validator inputs: a run of key characters of at most MinKeyLen + MaxExtra ...
MaxExtra == 1
\* ... followed by at most this many arbitrary characters
MaxTail == 2

(***************************************************************************)
(* Characters.                                                             *)
(***************************************************************************)
UpperAlpha == <<"A","B","C","D","E","F","G","H","I","J","K","L","M",
                "N","O","P","Q","R","S","T","U","V","W","X","Y","Z">>
LowerAlpha == <<"a","b","c","d","e","f","g","h","i","j","k","l","m",
                "n","o","p","q","r","s","t","u","v","w","x","y","z">>
Digits == {"0","1","2","3","4","5","6","7","8","9"}
Letters == {UpperAlpha[i] : i \in 1..26} \cup {LowerAlpha[i] : i \in 1..26}

\* the characters str.strip() removes (the ASCII ones)
Whitespace == {" ", "\t", "\n", "\r", "\f"}

\* the character class [A-Za-z0-9_-] of the pattern at line 82
KeyChars == Letters \cup Digits \cup {"_", "-"}

\* str.lower() on one character
LowerChar(c) ==
    IF \E i \in 1..26 : UpperAlpha[i] = c
    THEN LowerAlpha[CHOOSE i \in 1..26 : UpperAlpha[i] = c]
    ELSE c

\* str.lower(): every cased character replaced by its lowercase form
lower(s) == [i \in 1..Len(s) |-> LowerChar(s[i])]

RECURSIVE lstrip(_)
lstrip(s) == IF s # <<>> /\ Head(s) \in Whitespace THEN lstrip(Tail(s)) ELSE s

RECURSIVE rstrip(_)
rstrip(s) ==
    IF s # <<>> /\ s[Len(s)] \in Whitespace
    THEN rstrip(SubSeq(s, 1, Len(s) - 1))
    ELSE s

\* str.strip(): leading and trailing whitespace removed
strip(s) == rstrip(lstrip(s))

(***************************************************************************)
(* validate_api_key (lines 67-85).                                         *)
(***************************************************************************)
MinKeyLen == 30

\* re.match(r'^[A-Za-z0-9_-]+$', s): one or more class characters from the
\* start, then '$', which (without re.MULTILINE) matches at the end of the
\* string and also just before a newline that is the string's last character.
re_match_key(s) ==
    \E n \in 1..Len(s) :
        /\ \A i \in 1..n : s[i] \in KeyChars
        /\ \/ n = Len(s)
           \/ n = Len(s) - 1 /\ s[Len(s)] = "\n"

validate_api_key(k) ==
    IF k = <<>> \/ Len(k) < MinKeyLen
    THEN FALSE
    ELSE IF ~ re_match_key(k)
         THEN FALSE
         ELSE TRUE

(***************************************************************************)
(* Exceptions.  An exception is its class, the set of category strings     *)
(* that occur in str(e) (the handlers test `"..." in str(e)`), and, for    *)
(* SystemExit, the exit code.                                              *)
(***************************************************************************)
Categories == {"API_KEY_INVALID", "PERMISSION_DENIED", "RESOURCE_EXHAUSTED"}

Exc(cls, tokens, code) == [cls |-> cls, tokens |-> tokens, code |-> code]

NoExc == Exc("none", {}, 0)
KeyboardInterrupt == Exc("KeyboardInterrupt", {}, 0)
EOFError == Exc("EOFError", {}, 0)
SystemExit(code) == Exc("SystemExit", {}, code)

\* what an SDK call can raise: an error whose text carries any of the
\* categories (or none of them), or the user's interruption while it blocks
SdkErrors == {Exc("Exception", T, 0) : T \in SUBSET Categories}
SdkRaises == SdkErrors \cup {KeyboardInterrupt}

\* what the session creation of 'clear' can raise (its handlers do not look
\* at the categories)
ClearRaises == {Exc("Exception", {}, 0), Exc("Exception", {"API_KEY_INVALID"}, 0),
                KeyboardInterrupt}

\* a print whose write to standard output fails (an OSError)
PrintError == Exc("Exception", {}, 0)

\* what input() can raise
InputRaises == {KeyboardInterrupt, EOFError}

\* `except Exception` matches the subclasses of Exception; SystemExit and
\* KeyboardInterrupt derive from BaseException only
IsException(e) == e.cls \in {"Exception", "EOFError"}

(***************************************************************************)
(* Process state.                                                          *)
(***************************************************************************)
\* exit_code while the process is alive
Running == -1
\* exit status of an interpreter ended by an unhandled KeyboardInterrupt
SigIntStatus == 130

\* self.chat = None (line 101)
NoChat == [id |-> 0, history |-> <<>>]

\* the None that send_message returns (lines 159, 162, 166)
ResponseNone == "<None>"
\* the loop's local `response` before the first assignment
ResponseUnset == "<unset>"

\* os.environ.get("GEMINI_API_KEY") is None (line 32)
EnvUnset == <<"<unset>">>
\* get_api_key has not returned
NotReturned == <<"<not returned>">>

NoRequest == [sid |-> 0, history |-> <<>>, text |-> <<>>]

CallNames == {"configure", "list_models", "GenerativeModel", "start_chat", "send_message"}

(***************************************************************************)
(* Printed lines.                                                          *)
(***************************************************************************)
MSG_FORMAT_INVALID == <<"Error: The API key format appears to be invalid.">>
MSG_CHECK_KEY == <<"Please check your API key and try again.">>
MSG_VISIT == <<"Visit: https://aistudio.google.com/app/apikey to get a valid API key.">>
MSG_CONNECTED == <<"Successfully connected to model.">>
MSG_KEY_INVALID == <<"Error: The API key is invalid.">>
MSG_GET_KEY == <<"Please get a valid API key from: https://aistudio.google.com/app/apikey">>
MSG_SETUP_ERROR == <<"Error setting up Gemini AI">>
MSG_IF_KEY_ISSUE == <<"If this is an API key issue, please visit: https://aistudio.google.com/app/apikey">>
MSG_KEY_EXPIRED == <<"Error: The API key is invalid or has expired.">>
MSG_PERMISSION == <<"Error: Permission denied. Your API key may not have access to this model.">>
MSG_EXHAUSTED == <<"Error: Resource exhausted. You may have reached your quota limit.">>
MSG_COMM_ERROR == <<"Error communicating with Gemini AI">>
MSG_TRACEBACK == <<"traceback">>
MSG_BANNER == <<"Welcome to Gemini AI Chatbot!">>
MSG_GOODBYE == <<"Thank you for chatting! Goodbye.">>
MSG_RESET == <<"Conversation has been reset.">>
MSG_THINKING == <<"Gemini is thinking...">>
MSG_BLANK == <<"                              ">>
MSG_SORRY == <<"Sorry, I couldn't get a response. Please try again.">>
MSG_INTERRUPTED == <<"Interrupted by user. Exiting...">>
MSG_AN_ERROR == <<"An error occurred">>
MSG_CONTINUE == <<"Let's continue our conversation.">>
MSG_FATAL == <<"Fatal error">>
MSG_NO_KEY == <<"No valid API key found in environment variables.">>
MSG_NEED_KEY == <<"Visit: https://aistudio.google.com/app/apikey to get your API key.">>
MSG_SAVED == <<"API key saved to .env file.">>
MSG_HOWTO == <<"To load it automatically, use: ">>
MSG_COULD_NOT_SAVE == <<"Could not save API key">>
\* print(f"Gemini: {response}") at line 205
MSG_REPLY(r) == <<"Gemini: ", r>>

(***************************************************************************)
(* Inputs.                                                                 *)
(***************************************************************************)
Rep(c, n) == [i \in 1..n |-> c]

\* the literal main() passes to the constructor (line 220)
HardCodedKey == <<"A","I","z","a","S","y","C","l","r","h","H","1","5","h","-","x","1","_","h","V","M","p","i","c","F","R","2","8","Z","t","D","Q","G","r","h","C","l","C","g">>

\* credentials GeminiChatbot is constructed with: the literal of main(), and
\* keys the validator rejects (too short, a character outside the class, empty)
Keys == { HardCodedKey,
          Rep("a", MinKeyLen - 1),
          Rep("a", MinKeyLen) \o <<" ">>,
          <<>> }

\* inputs of the validator: an optional leading character, a run of key
\* characters, and a tail of arbitrary characters
TailChars == {"a", "-", "\n", " ", "!"}
TailsOf(n) == UNION {[1..m -> TailChars] : m \in 0..n}
KeyInputs ==
    { h \o Rep("Z", n) \o t :
        h \in TailsOf(1), n \in 0..(MinKeyLen + MaxExtra), t \in TailsOf(MaxTail) }
    \cup Keys \cup {Rep("a", MinKeyLen - 1) \o <<"\n">>}

UpperChar(c) ==
    IF \E i \in 1..26 : LowerAlpha[i] = c
    THEN UpperAlpha[CHOOSE i \in 1..26 : LowerAlpha[i] = c]
    ELSE c
upper(s) == [i \in 1..Len(s) |-> UpperChar(s[i])]
capitalize(s) == IF s = <<>> THEN s ELSE <<UpperChar(Head(s))>> \o Tail(s)
CaseVariants(w) == {w, upper(w), capitalize(w)}

Pads == {<<>>, <<" ">>}
Padded(W) == {p \o w \o q : p \in Pads, q \in Pads, w \in W}

W_exit == <<"e","x","i","t">>
W_quit == <<"q","u","i","t">>
W_bye == <<"b","y","e">>
W_clear == <<"c","l","e","a","r">>
W_hi == <<"H","i">>
W_exit_now == <<"e","x","i","t"," ","n","o","w">>

\* the lines input() returns: the commands in several cases and paddings,
\* blank lines, messages, and a message that only starts like a command
Lines ==
    Padded(CaseVariants(W_exit) \cup CaseVariants(W_quit) \cup CaseVariants(W_bye))
    \cup {<<"\t">> \o W_exit \o <<" ", "\t">>}
    \cup {p \o w \o p : p \in Pads, w \in CaseVariants(W_clear)}
    \cup {<<>>, <<" ">>, <<" ", "\t", " ">>}
    \cup {W_hi, <<" ">> \o W_hi \o <<" ">>, W_exit_now}

\* a well-formed key that is not the literal of main()
OtherKey == Rep("b", MinKeyLen + 2)
\* a well-formed key the user types
TypedKey == Rep("c", MinKeyLen)

\* GEMINI_API_KEY at process start: unset, set to the empty string, set to a key
EnvValues == {EnvUnset, <<>>, OtherKey}

\* what the user types at the API-key prompt
PromptKeys == {TypedKey, <<" ">> \o TypedKey \o <<" ", "\t">>, <<"c">>, <<>>}

\* what the user types at the save question
W_y == <<"y">>
Answers ==
    Padded(CaseVariants(W_y))
    \cup {<<"n">>, <<"N">>, <<>>, <<" ">>, <<"y", "e", "s">>, <<"y", " ", "y">>}

\* the .env file before the run: absent or empty, or holding an entry
DotenvFiles == {<<>>, <<<<"GEMINI_API_KEY", OtherKey>>>>}

\* the reply texts the remote service returns
Replies == {"", "Hello there"}

(***************************************************************************)
(* Exception handlers and the exit status of the process.                  *)
(***************************************************************************)
\* setup_format_check without the sys.exit(1) of line 112
setup_format_check_goes_on(valid) ==
    IF valid THEN [out |-> <<>>, exc |-> NoExc]
    ELSE [out |-> <<MSG_FORMAT_INVALID, MSG_CHECK_KEY, MSG_VISIT>>, exc |-> NoExc]

\* setup, the format check (lines 108-112), given the validator's verdict
setup_format_check(valid) ==
    IF valid THEN [out |-> <<>>, exc |-> NoExc]
    ELSE [out |-> <<MSG_FORMAT_INVALID, MSG_CHECK_KEY, MSG_VISIT>>,
          exc |-> SystemExit(1)]

\* setup_inner_except with the `raise e` of line 131 left out: an error that
\* is not an invalid credential is swallowed
setup_inner_except_swallows(e) ==
    IF IsException(e)
    THEN IF "API_KEY_INVALID" \in e.tokens
         THEN [out |-> <<MSG_KEY_INVALID, MSG_GET_KEY>>, exc |-> SystemExit(1)]
         ELSE [out |-> <<>>, exc |-> NoExc]
    ELSE [out |-> <<>>, exc |-> e]

\* setup, the inner handler (lines 125-131): an invalid-credential error
\* ends the process, any other error is raised again
setup_inner_except(e) ==
    IF IsException(e)
    THEN IF "API_KEY_INVALID" \in e.tokens
         THEN [out |-> <<MSG_KEY_INVALID, MSG_GET_KEY>>, exc |-> SystemExit(1)]
         ELSE [out |-> <<>>, exc |-> e]
    ELSE [out |-> <<>>, exc |-> e]

\* setup_outer_except returning to the caller after its two prints
setup_outer_except_returns(e) ==
    IF IsException(e)
    THEN [out |-> <<MSG_SETUP_ERROR, MSG_IF_KEY_ISSUE>>, exc |-> NoExc]
    ELSE [out |-> <<>>, exc |-> e]

\* setup, the outer handler (lines 133-136)
setup_outer_except(e) ==
    IF IsException(e)
    THEN [out |-> <<MSG_SETUP_ERROR, MSG_IF_KEY_ISSUE>>, exc |-> SystemExit(1)]
    ELSE [out |-> <<>>, exc |-> e]

\* send_message_catches as a bare `except:`
send_message_catches_all(e) == TRUE

\* send_message: which exceptions `except Exception as e` (line 151) catches
send_message_catches(e) == IsException(e)

\* send_message_except with the session dropped (self.chat = None) when the
\* error is not one of the named categories
send_message_except_drops_chat(c, e) ==
    IF "API_KEY_INVALID" \in e.tokens
    THEN [out |-> <<MSG_KEY_EXPIRED, MSG_GET_KEY>>, ret |-> ResponseNone,
          exc |-> SystemExit(1), chat |-> c]
    ELSE IF "PERMISSION_DENIED" \in e.tokens
    THEN [out |-> <<MSG_PERMISSION>>, ret |-> ResponseNone, exc |-> NoExc, chat |-> c]
    ELSE IF "RESOURCE_EXHAUSTED" \in e.tokens
    THEN [out |-> <<MSG_EXHAUSTED>>, ret |-> ResponseNone, exc |-> NoExc, chat |-> c]
    ELSE [out |-> <<MSG_COMM_ERROR, MSG_TRACEBACK>>, ret |-> ResponseNone,
          exc |-> NoExc, chat |-> NoChat]

\* send_message, the handler's body (lines 152-166): what it prints, what it
\* returns or raises, and self.chat when it is done
send_message_except(c, e) ==
    IF "API_KEY_INVALID" \in e.tokens
    THEN [out |-> <<MSG_KEY_EXPIRED, MSG_GET_KEY>>, ret |-> ResponseNone,
          exc |-> SystemExit(1), chat |-> c]
    ELSE IF "PERMISSION_DENIED" \in e.tokens
    THEN [out |-> <<MSG_PERMISSION>>, ret |-> ResponseNone, exc |-> NoExc, chat |-> c]
    ELSE IF "RESOURCE_EXHAUSTED" \in e.tokens
    THEN [out |-> <<MSG_EXHAUSTED>>, ret |-> ResponseNone, exc |-> NoExc, chat |-> c]
    ELSE [out |-> <<MSG_COMM_ERROR, MSG_TRACEBACK>>, ret |-> ResponseNone,
          exc |-> NoExc, chat |-> c]

\* loop_except with a `break` at the end of the `except Exception` handler
loop_except_breaks(e) ==
    IF e.cls = "KeyboardInterrupt"
    THEN [ctl |-> "break", out |-> <<MSG_INTERRUPTED>>]
    ELSE IF IsException(e)
    THEN [ctl |-> "break", out |-> <<MSG_AN_ERROR, MSG_CONTINUE>>]
    ELSE [ctl |-> "propagate", out |-> <<>>]

\* loop_except with a bare `except:` in place of `except Exception`
loop_except_bare(e) ==
    IF e.cls = "KeyboardInterrupt"
    THEN [ctl |-> "break", out |-> <<MSG_INTERRUPTED>>]
    ELSE [ctl |-> "continue", out |-> <<MSG_AN_ERROR, MSG_CONTINUE>>]

\* run_chat_loop, the handlers of the loop body (lines 209-214)
loop_except(e) ==
    IF e.cls = "KeyboardInterrupt"
    THEN [ctl |-> "break", out |-> <<MSG_INTERRUPTED>>]
    ELSE IF IsException(e)
    THEN [ctl |-> "continue", out |-> <<MSG_AN_ERROR, MSG_CONTINUE>>]
    ELSE [ctl |-> "propagate", out |-> <<>>]

\* main, the handler around construction and loop (lines 225-228)
main_except(e) ==
    IF IsException(e)
    THEN [out |-> <<MSG_FATAL, MSG_TRACEBACK>>, exc |-> SystemExit(1)]
    ELSE [out |-> <<>>, exc |-> e]

\* the exit status of the interpreter when e leaves main()
exit_status(e) ==
    IF e.cls = "SystemExit" THEN e.code
    ELSE IF e.cls = "KeyboardInterrupt" THEN SigIntStatus
    ELSE 1

(***************************************************************************)
(* The loop's dispatch of one line (lines 178-207).                        *)
(***************************************************************************)
\* read_user_input without the .strip()
read_user_input_raw(l) == l

\* user_input = input(...).strip() (line 178)
read_user_input(l) == strip(l)

\* is_exit_command without the .lower()
is_exit_command_cased(u) == u \in {W_exit, W_quit, W_bye}

\* user_input.lower() in ['exit', 'quit', 'bye'] (line 181)
is_exit_command(u) == lower(u) \in {W_exit, W_quit, W_bye}

\* user_input.lower() == 'clear' (line 186)
is_clear_command(u) == lower(u) = W_clear

\* is_empty_input with the test of line 192 left out
is_empty_input_never(u) == FALSE

\* not user_input (line 192)
is_empty_input(u) == u = <<>>

\* the lines taken by each branch of the dispatch, in the order of the code
ExitLines == {l \in Lines : is_exit_command(read_user_input(l))}
ClearLines == {l \in Lines \ ExitLines : is_clear_command(read_user_input(l))}
EmptyLines == {l \in Lines \ (ExitLines \cup ClearLines) :
                  is_empty_input(read_user_input(l))}
MessageLines == Lines \ (ExitLines \cup ClearLines \cup EmptyLines)

\* the truth value of `response` in `if response:` (line 204)
Truthy(r) == r # ResponseNone /\ r # ""

\* print_response without the test of line 204
print_response_unchecked(r) == <<MSG_REPLY(r)>>

\* the reply or the failure notice (lines 204-207)
print_response(r) == IF Truthy(r) THEN <<MSG_REPLY(r)>> ELSE <<MSG_SORRY>>

\* model.start_chat(history=[]): a new session handle with empty history
start_chat(id) == [id |-> id, history |-> <<>>]

\* reset_chat with the old history handed to the new session
reset_chat_keeps_history(old, id) == [id |-> id, history |-> old.history]

\* clear_failed_chat with self.chat dropped before the new session exists
clear_failed_chat_drops(old) == NoChat

\* self.chat after a 'clear' whose session creation raised (line 187): the
\* assignment is not reached
clear_failed_chat(old) == old

\* the session handle self.chat is bound to by 'clear' (line 187)
reset_chat(old, id) == start_chat(id)

(***************************************************************************)
(* Initial state: the process has started and main() is about to construct *)
(* GeminiChatbot(api_key) (lines 91-102: self.chat = None, then setup()).  *)
(***************************************************************************)
InitProgram ==
    /\ key_ok = "unchecked"
    /\ chat = NoChat
    /\ exit_code = Running
    /\ cause = "none"
    /\ line = <<>>
    /\ request = NoRequest
    /\ response = ResponseUnset
    /\ raised = NoExc
    /\ raised_by = "none"
    /\ out = <<>>
    /\ calls = [c \in CallNames |-> "none"]
    /\ n_sends = 0
    /\ n_sessions = 0
    /\ reset_mark = 0
    /\ n_done = 0
    /\ returned = NotReturned

\* the variable unset, nothing typed, no .env file
InitEnviron ==
    /\ environ = EnvUnset
    /\ prompt_key = <<>>
    /\ save_answer = <<>>
    /\ dotenv = <<>>

InitRest == pc = "start" /\ InitProgram /\ InitEnviron

Init == api_key \in Keys /\ InitRest

(***************************************************************************)
(* Control transfers shared by the actions.                                *)
(***************************************************************************)
\* the loop goes on to the next input() call
Continue(o) ==
    /\ pc' = "input"
    /\ out' = o
    /\ UNCHANGED <<exit_code, cause>>

\* the process ends
Exit(code, why, o) ==
    /\ pc' = "done"
    /\ exit_code' = code
    /\ cause' = why
    /\ out' = o

\* exception e leaves the constructor or the loop and reaches main()
Leave(e, why, o) ==
    LET m == main_except(e)
    IN  Exit(exit_status(m.exc), IF IsException(e) THEN "fatal" ELSE why, o \o m.out)

\* exception e is raised inside the loop's try block (lines 177-214)
LoopRaise(e, why, o) ==
    LET h == loop_except(e)
    IN  IF h.ctl = "break"
        THEN Exit(0, IF e.cls = "KeyboardInterrupt" THEN "interrupt" ELSE why, o \o h.out)
        ELSE IF h.ctl = "continue" THEN Continue(o \o h.out)
        ELSE Leave(e, why, o)

(***************************************************************************)
(* GeminiChatbot.__init__ and setup (lines 91-136), followed, when setup   *)
(* returns, by the banner of run_chat_loop (lines 170-174).                *)
(* fail_at names the SDK call that raises e ("none": every call returns).  *)
(***************************************************************************)
SetupSteps == <<"configure", "list_models", "GenerativeModel", "start_chat">>
StepIndex(c) == IF c \in {"none", "print"} THEN Len(SetupSteps) + 1
                ELSE CHOOSE i \in 1..Len(SetupSteps) : SetupSteps[i] = c

\* the SDK calls setup makes when the call fail_at raises
setup_calls(fail_at) ==
    [c \in CallNames |->
        IF c = "send_message" THEN "none"
        ELSE IF StepIndex(c) < StepIndex(fail_at) THEN "ok"
        ELSE IF c = fail_at THEN "raised"
        ELSE "none"]

Setup(fail_at, e) ==
    /\ pc = "start"
    /\ (fail_at = "none") = (e = NoExc)
    /\ fail_at = "print" => e = PrintError
    /\ LET valid == validate_api_key(api_key)
           fmt   == setup_format_check(valid)
           \* the SDK calls are reached when the format check raised nothing
           go    == fmt.exc = NoExc
           \* genai.configure (line 114) is outside the inner try (lines 117-131)
           inner == IF fail_at \in {"list_models", "GenerativeModel", "start_chat"}
                    THEN setup_inner_except(e)
                    ELSE IF fail_at = "configure" THEN [out |-> <<>>, exc |-> e]
                    ELSE [out |-> <<>>, exc |-> NoExc]
           body  == IF go THEN [out |-> fmt.out \o inner.out, exc |-> inner.exc]
                    ELSE fmt
           outer == setup_outer_except(body.exc)
           \* what leaves setup() once its handlers have run
           final == IF body.exc = NoExc THEN body
                    ELSE [out |-> body.out \o outer.out, exc |-> outer.exc]
           done  == fail_at \in {"none", "print"}
       IN  /\ ~ go => fail_at = "none"
           /\ key_ok' = IF valid THEN "valid" ELSE "invalid"
           /\ calls' = IF go THEN setup_calls(fail_at) ELSE calls
           /\ raised' = e
           /\ raised_by' = fail_at
           /\ chat' = IF go /\ done THEN start_chat(1) ELSE chat
           /\ n_sessions' = IF go /\ done THEN 1 ELSE n_sessions
           /\ IF final.exc # NoExc
              THEN Leave(final.exc,
                         IF ~ go THEN "format"
                         ELSE IF final.exc.cls = "KeyboardInterrupt" THEN "setup_interrupt"
                         ELSE IF body.exc.cls = "SystemExit" THEN "setup_invalid_key"
                         ELSE "setup_error",
                         final.out)
              ELSE LET o == (IF go /\ done THEN <<MSG_CONNECTED>> ELSE <<>>) \o final.out
                   IN  \* the banner of run_chat_loop is printed outside any try
                       IF fail_at = "print"
                       THEN Leave(e, "fatal", o)
                       ELSE Continue(o \o <<MSG_BANNER>>)
    /\ UNCHANGED <<envvars, api_key, line, request, response, n_sends, reset_mark,
                   n_done>>

(***************************************************************************)
(* run_chat_loop, one pass of the loop body up to the next blocking call   *)
(* (lines 176-214).                                                        *)
(***************************************************************************)
\* input() raises: the user's interruption, or end of input
InputFails(e) ==
    /\ pc = "input"
    /\ raised' = e
    /\ raised_by' = "input"
    /\ LoopRaise(e, "input_error", <<>>)
    /\ UNCHANGED <<envvars, api_key, key_ok, chat, line, request, response, calls,
                   n_sends, n_sessions, reset_mark, n_done>>

\* exit, quit, bye (lines 181-183): break, run_chat_loop and main return
InputExit(l) ==
    /\ pc = "input"
    /\ l \in ExitLines
    /\ line' = l
    /\ raised' = NoExc
    /\ raised_by' = "none"
    /\ Exit(0, "exit_command", <<MSG_GOODBYE>>)
    /\ UNCHANGED <<envvars, api_key, key_ok, chat, request, response, calls,
                   n_sends, n_sessions, reset_mark, n_done>>

\* clear (lines 186-189): GenerativeModel(...) and start_chat(history=[]);
\* fail_at names the one that raises e
InputClear(l, fail_at, e) ==
    /\ pc = "input"
    /\ l \in ClearLines
    /\ fail_at \in {"none", "GenerativeModel", "start_chat"}
    /\ (fail_at = "none") = (e = NoExc)
    /\ line' = l
    /\ raised' = e
    /\ raised_by' = fail_at
    /\ calls' = [calls EXCEPT
                    !["GenerativeModel"] =
                        IF fail_at = "GenerativeModel" THEN "raised" ELSE "ok",
                    !["start_chat"] =
                        IF fail_at = "GenerativeModel" THEN @
                        ELSE IF fail_at = "start_chat" THEN "raised" ELSE "ok"]
    /\ IF e = NoExc
       THEN /\ n_sessions < MaxSessions
            /\ chat' = reset_chat(chat, n_sessions + 1)
            /\ n_sessions' = n_sessions + 1
            /\ reset_mark' = n_sends
            /\ Continue(<<MSG_RESET>>)
       ELSE /\ chat' = clear_failed_chat(chat)
            /\ UNCHANGED <<n_sessions, reset_mark>>
            /\ LoopRaise(e, "clear_error", <<>>)
    /\ UNCHANGED <<envvars, api_key, key_ok, request, response, n_sends, n_done>>

\* an empty line (lines 192-193): continue
InputEmpty(l) ==
    /\ pc = "input"
    /\ l \in EmptyLines
    /\ line' = l
    /\ raised' = NoExc
    /\ raised_by' = "none"
    /\ Continue(<<>>)
    /\ UNCHANGED <<envvars, api_key, key_ok, chat, request, response, calls,
                   n_sends, n_sessions, reset_mark, n_done>>

\* any other line (lines 196-199, 149): the thinking indicator, then
\* self.chat.send_message(user_input) is called and blocks
InputMessage(l) ==
    /\ pc = "input"
    /\ n_sends < MaxTurns
    /\ l \in MessageLines
    /\ request' = [sid |-> chat.id, history |-> chat.history,
                   text |-> read_user_input(l)]
    /\ line' = l
    /\ raised' = NoExc
    /\ raised_by' = "none"
    /\ n_sends' = n_sends + 1
    /\ pc' = "sending"
    /\ out' = <<MSG_THINKING>>
    /\ UNCHANGED <<envvars, api_key, key_ok, chat, exit_code, cause, response, calls,
                   n_sessions, reset_mark, n_done>>

\* the remote service answers with reply text r (lines 149-150, 202-207):
\* the session handle appends the turn to its history
SendReturns(r) ==
    /\ pc = "sending"
    /\ chat # NoChat
    /\ raised' = NoExc
    /\ raised_by' = "none"
    /\ calls' = [calls EXCEPT !["send_message"] = "ok"]
    /\ chat' = [chat EXCEPT !.history =
                    Append(@, [n |-> n_sends, text |-> request.text, reply |-> r])]
    /\ response' = r
    /\ Continue(<<MSG_BLANK>> \o print_response(r))
    /\ n_done' = n_done + 1
    /\ UNCHANGED <<envvars, api_key, key_ok, line, request, n_sends, n_sessions, reset_mark>>

\* the call at lines 149-150 raises e (an error of the remote service or of
\* reading the reply, the user's interruption, or, with self.chat None, the
\* AttributeError of the attribute lookup); the session's history is as before
SendRaises(e) ==
    /\ pc = "sending"
    /\ chat = NoChat => e = Exc("Exception", {}, 0)
    /\ raised' = e
    /\ raised_by' = "send_message"
    /\ calls' = [calls EXCEPT !["send_message"] = "raised"]
    /\ IF send_message_catches(e)
       THEN LET h == send_message_except(chat, e)
            IN  /\ chat' = h.chat
                /\ IF h.exc = NoExc
                   THEN /\ response' = h.ret
                        /\ Continue(h.out \o <<MSG_BLANK>> \o print_response(h.ret))
                   ELSE /\ response' = response
                        /\ LoopRaise(h.exc, "turn_invalid_key", h.out)
       ELSE /\ UNCHANGED <<chat, response>>
            /\ LoopRaise(e, "turn_error", <<>>)
    /\ n_done' = n_done + 1
    /\ UNCHANGED <<envvars, api_key, key_ok, line, request, n_sends, n_sessions, reset_mark>>

Next ==
    \/ \E f \in {"none", "print"} \cup {SetupSteps[i] : i \in 1..Len(SetupSteps)},
          e \in {NoExc} \cup SdkRaises : Setup(f, e)
    \/ \E e \in InputRaises : InputFails(e)
    \/ \E l \in ExitLines : InputExit(l)
    \/ \E l \in ClearLines, f \in {"none", "GenerativeModel", "start_chat"},
          e \in {NoExc} \cup ClearRaises : InputClear(l, f, e)
    \/ \E l \in EmptyLines : InputEmpty(l)
    \/ \E l \in MessageLines : InputMessage(l)
    \/ \E r \in Replies : SendReturns(r)
    \/ \E e \in SdkRaises : SendRaises(e)

Spec == Init /\ [][Next]_vars

(***************************************************************************)
(* The validator alone: validate_api_key applied to each input.            *)
(***************************************************************************)
InitValidator == api_key \in KeyInputs /\ InitRest

Validate ==
    /\ pc = "start"
    /\ key_ok' = IF validate_api_key(api_key) THEN "valid" ELSE "invalid"
    /\ pc' = "validated"
    /\ UNCHANGED <<envvars, api_key, chat, exit_code, cause, line, request, response,
                   raised, raised_by, out, calls, n_sends, n_sessions, reset_mark, n_done>>

NextValidator == Validate

SpecValidator == InitValidator /\ [][NextValidator]_vars

(***************************************************************************)
(* main() (lines 217-223): the credential it constructs the chatbot with.  *)
(***************************************************************************)
InitMain ==
    /\ pc = "main"
    /\ api_key = <<>>
    /\ InitProgram
    /\ environ \in {EnvUnset, OtherKey}
    /\ prompt_key = TypedKey
    /\ save_answer = <<"n">>
    /\ dotenv = <<>>

\* api_key = "AIza..." (line 220); get_api_key is not called
Main ==
    /\ pc = "main"
    /\ api_key' = HardCodedKey
    /\ pc' = "start"
    /\ UNCHANGED <<envvars, key_ok, chat, exit_code, cause, line, request, response,
                   raised, raised_by, out, calls, n_sends, n_sessions, reset_mark,
                   n_done>>

NextMain == Main \/ Next

SpecMain == InitMain /\ [][NextMain]_vars

(***************************************************************************)
(* get_api_key (lines 24-64) alone, applied to each environment and each   *)
(* pair of answers.                                                        *)
(***************************************************************************)
\* `if not api_key` is false (line 35): the lookup gave a non-empty string
env_lookup_found(env) == env # EnvUnset /\ env # <<>>

\* resolver_saves with every answer but 'n' taken as consent
resolver_saves_unless_no(answer) == lower(strip(answer)) # <<"n">>

\* save_choice == 'y' (lines 48-49)
resolver_saves(answer) == lower(strip(answer)) = W_y

\* the entry f.write appends (line 53)
dotenv_entry(k) == <<"GEMINI_API_KEY", k>>

\* how the try block of lines 50-60 ends: open, write and prints all succeed,
\* open or write raises, or a print after the write raises
SaveOutcomes == {"ok", "write_raises", "print_raises"}

\* get_api_key(): the value returned, os.environ and .env afterwards, the lines
\* printed and what the save block did; w is the outcome of the save block
get_api_key(env, typed, answer, file, w) ==
    IF env_lookup_found(env)
    THEN [ret |-> env, environ |-> env, dotenv |-> file, out |-> <<>>,
          wrote |-> "no"]
    ELSE LET k == strip(typed)
             asked == <<MSG_NO_KEY, MSG_NEED_KEY>>
         IN  IF ~ resolver_saves(answer)
             THEN [ret |-> k, environ |-> k, dotenv |-> file, out |-> asked,
                   wrote |-> "no"]
             ELSE IF w = "ok"
             THEN [ret |-> k, environ |-> k, dotenv |-> Append(file, dotenv_entry(k)),
                   out |-> asked \o <<MSG_SAVED, MSG_HOWTO>>, wrote |-> "ok"]
             ELSE IF w = "print_raises"
             THEN [ret |-> k, environ |-> k, dotenv |-> Append(file, dotenv_entry(k)),
                   out |-> asked \o <<MSG_COULD_NOT_SAVE>>, wrote |-> "print_raises"]
             ELSE [ret |-> k, environ |-> k, dotenv |-> file,
                   out |-> asked \o <<MSG_COULD_NOT_SAVE>>, wrote |-> "write_raises"]

InitResolver ==
    /\ pc = "resolve"
    /\ api_key = <<>>
    /\ InitProgram
    /\ environ \in EnvValues
    /\ prompt_key \in PromptKeys
    /\ save_answer \in Answers
    /\ dotenv \in DotenvFiles

GetApiKey(w) ==
    /\ pc = "resolve"
    /\ LET r == get_api_key(environ, prompt_key, save_answer, dotenv, w)
       IN  /\ returned' = r.ret
           /\ environ' = r.environ
           /\ dotenv' = r.dotenv
           /\ out' = r.out
           /\ raised' = IF r.wrote \in {"write_raises", "print_raises"}
                        THEN PrintError ELSE NoExc
           /\ raised_by' = IF r.wrote = "write_raises" THEN "write"
                           ELSE IF r.wrote = "print_raises" THEN "print" ELSE "none"
    /\ pc' = "resolved"
    /\ UNCHANGED <<api_key, prompt_key, save_answer, key_ok, chat, exit_code, cause, line,
                   request, response, calls, n_sends, n_sessions, reset_mark, n_done>>

NextResolver == \E w \in SaveOutcomes : GetApiKey(w)

SpecResolver == InitResolver /\ [][NextResolver]_vars

(***************************************************************************)
(* Properties.                                                             *)
(***************************************************************************)
Range(q) == {q[i] : i \in 1..Len(q)}

\* the states of the chat session: Uninitialized, Ready, Terminated
State ==
    IF exit_code # Running THEN "Terminated"
    ELSE IF chat = NoChat THEN "Uninitialized"
    ELSE "Ready"

\* the last step's SDK call raised an error of the remote service
RemoteError == raised.cls = "Exception"
InvalidCredential == RemoteError /\ "API_KEY_INVALID" \in raised.tokens
NonFatalError == RemoteError /\ "API_KEY_INVALID" \notin raised.tokens

\* C1: when the verification call of setup or a send of the loop raises an
\* error that carries the invalid-credential category, the process is ended
\* with exit code 1, whatever turns and resets came before.
C1_InvalidCredentialExits1 ==
    (InvalidCredential /\ raised_by \in {"list_models", "send_message"})
        => (pc = "done" /\ exit_code = 1)

\* C1 witness: an invalid-credential answer to a send after a successful
\* turn and a reset has ended the process with exit code 1.
C1_Witness ==
    /\ InvalidCredential /\ raised_by = "send_message"
    /\ n_sends >= 2 /\ n_sessions >= 2 /\ Truthy(response)
    /\ pc = "done" /\ exit_code = 1

\* C2: a request made after a completed reset carries no turn exchanged
\* before that reset, and the first request after the reset carries an
\* empty history.
C2_ResetEmptiesContext ==
    (n_sessions >= 2 /\ n_sends > reset_mark) =>
        /\ \A i \in 1..Len(request.history) : request.history[i].n > reset_mark
        /\ (n_sends = reset_mark + 1) => request.history = <<>>
        /\ request.sid = chat.id

\* C2 witness: a turn succeeded, the session was reset, and the next message
\* is in flight.
C2_Witness ==
    /\ pc = "sending" /\ n_sessions >= 2
    /\ reset_mark >= 1 /\ n_sends = reset_mark + 1
    /\ Truthy(response)

\* C3: a turn that fails with an error other than invalid-credential leaves
\* self.chat as it was (the same handle, the same history), and the next
\* request is made on that handle with that history as its context.
C3_FailedTurnKeepsSession ==
    [][ /\ (pc = "sending" /\ raised_by' = "send_message" /\ NonFatalError')
            => (chat' = chat /\ chat' # NoChat)
        /\ (pc = "input" /\ pc' = "sending")
            => (request'.sid = chat.id /\ request'.history = chat.history)
      ]_vars

\* C3 witness: a turn has failed with a non-fatal error on a session that
\* holds an earlier successful turn.
C3_Witness ==
    /\ pc = "input" /\ raised_by = "send_message" /\ NonFatalError
    /\ Len(chat.history) >= 1

\* C4: when a send raises an error other than invalid-credential,
\* send_message returns None, the process lives, the failure notice is
\* printed, the session is Ready and the loop is back at input().
C4_NonFatalErrorContinues ==
    (raised_by = "send_message" /\ NonFatalError) =>
        /\ response = ResponseNone
        /\ exit_code = Running
        /\ MSG_SORRY \in Range(out)
        /\ \A r \in Replies \cup {ResponseNone} : MSG_REPLY(r) \notin Range(out)
        /\ State = "Ready"
        /\ pc = "input"

\* C4 witness: a send was answered with permission-denied and the loop waits
\* for the next line.
C4_Witness ==
    /\ raised_by = "send_message"
    /\ raised = Exc("Exception", {"PERMISSION_DENIED"}, 0)
    /\ pc = "input" /\ MSG_SORRY \in Range(out)

\* two characters that are equal or the two cases of one letter
SameLetter(a, b) ==
    a = b \/ \E m \in 1..26 : {a, b} = {UpperAlpha[m], LowerAlpha[m]}

EqualsIgnoringCase(u, w) ==
    Len(u) = Len(w) /\ \A k \in 1..Len(w) : SameLetter(u[k], w[k])

\* line l is the word w, in any letter case, between whitespace only
TrimmedEquals(l, w) ==
    \E i, j \in 0..Len(l) :
        /\ i + Len(w) + j = Len(l)
        /\ \A k \in 1..i : l[k] \in Whitespace
        /\ \A k \in (Len(l) - j + 1)..Len(l) : l[k] \in Whitespace
        /\ EqualsIgnoringCase(SubSeq(l, i + 1, i + Len(w)), w)

IsExitToken(l) == \E w \in {W_exit, W_quit, W_bye} : TrimmedEquals(l, w)

IsBlank(l) == \A k \in 1..Len(l) : l[k] \in Whitespace

\* the step reads a line: input() returns line'
ReadsLine == pc = "input" /\ raised' = NoExc

\* C5: a line that is exit, quit or bye once trimmed and with case ignored
\* ends the loop with exit code 0; no send is made for that line, and none
\* once the process has ended.
C5_ExitTokenEndsLoop ==
    [][ /\ (ReadsLine /\ IsExitToken(line'))
            => /\ pc' = "done" /\ exit_code' = 0
               /\ n_sends' = n_sends /\ request' = request /\ calls' = calls
        /\ (pc = "done")
            => (pc' = "done" /\ n_sends' = n_sends /\ request' = request)
      ]_vars

\* C5 witness: " EXIT " was read after a turn and the process ended with 0.
C5_Witness ==
    /\ line = <<" ", "E", "X", "I", "T", " ">>
    /\ pc = "done" /\ exit_code = 0 /\ cause = "exit_command"
    /\ n_sends >= 1

\* C6: a line that is empty or whitespace only causes no send and no SDK
\* call, prints nothing, leaves the session as it was, and the loop is back
\* at input().
C6_BlankLineIgnored ==
    [][ (ReadsLine /\ IsBlank(line'))
            => /\ pc' = "input" /\ exit_code' = Running
               /\ out' = <<>>
               /\ chat' = chat
               /\ n_sends' = n_sends /\ request' = request /\ calls' = calls
      ]_vars

\* C6 witness: a whitespace-only line was read on a session that holds a turn.
C6_Witness ==
    /\ line = <<" ", "\t", " ">> /\ raised = NoExc
    /\ pc = "input" /\ out = <<>>
    /\ Len(chat.history) >= 1

\* C7: an interruption raised while the loop waits in input(), while a send
\* is in flight, or anywhere else inside the loop body ends the loop and the
\* process with exit code 0.
C7_InterruptExits0 ==
    (raised = KeyboardInterrupt /\ (raised_by \in {"input", "send_message"} \/ n_sessions >= 1))
        => /\ pc = "done" /\ exit_code = 0 /\ cause = "interrupt"
           /\ MSG_INTERRUPTED \in Range(out)

\* C7 witness: the interruption arrived while a send was in flight.
C7_Witness ==
    /\ raised = KeyboardInterrupt /\ raised_by = "send_message"
    /\ pc = "done" /\ exit_code = 0

\* C8: validate_api_key returns true exactly for the strings of length at
\* least 30 made only of characters of [A-Za-z0-9_-].
C8_ValidatorMatchesFormat ==
    pc = "validated" =>
        ((key_ok = "valid") <=>
            (Len(api_key) >= 30 /\ \A i \in 1..Len(api_key) : api_key[i] \in KeyChars))

\* the setup step
SetupEnds == pc = "start" /\ pc' # "start"
SetupCallsAllOk == \A i \in 1..Len(SetupSteps) : calls[SetupSteps[i]] = "ok"

\* C9 as stated: with a credential that passes the validator and a
\* verification call that succeeds, setup (when the user does not interrupt
\* it) ends Ready whatever model construction and session creation do.
C9_ReadyAfterVerification ==
    [][ (SetupEnds /\ key_ok' = "valid" /\ calls'["list_models"] = "ok"
            /\ raised' # KeyboardInterrupt /\ raised_by' # "print")
            => /\ pc' = "input" /\ exit_code' = Running
               /\ chat' # NoChat /\ chat'.history = <<>>
      ]_vars

\* C9 amended: with a credential that passes the validator, a setup whose
\* SDK calls all return ends Ready, with a session handle of empty history
\* and the process alive; an error raised by model construction or session
\* creation ends the process with exit code 1.
C9_ReadyWhenAllCallsReturn ==
    [][ /\ (SetupEnds /\ key_ok' = "valid" /\ SetupCallsAllOk' /\ raised_by' # "print")
            => /\ pc' = "input" /\ exit_code' = Running
               /\ chat' # NoChat /\ chat'.history = <<>>
        /\ (SetupEnds /\ key_ok' = "valid" /\ RemoteError'
                /\ raised_by' \in {"GenerativeModel", "start_chat"})
            => (pc' = "done" /\ exit_code' = 1)
      ]_vars

\* C9 witness: setup has just returned and the loop waits for its first line.
C9_Witness ==
    /\ key_ok = "valid" /\ SetupCallsAllOk
    /\ pc = "input" /\ exit_code = Running
    /\ chat = start_chat(1)
    /\ out = <<MSG_CONNECTED, MSG_BANNER>>

\* C10: when the remote service returns a reply (the empty string included)
\* the loop prints that reply and not the failure notice; the failure
\* notice is printed only after a send that raised a non-fatal error.
C10_ReplyPrinted ==
    [][ /\ (pc = "sending" /\ raised' = NoExc)
            => (MSG_REPLY(response') \in Range(out') /\ MSG_SORRY \notin Range(out'))
        /\ (MSG_SORRY \in Range(out'))
            => (raised_by' = "send_message" /\ NonFatalError')
      ]_vars

\* C11: the credential the chatbot is set up with is the value of the
\* environment variable when it is set at process start, and otherwise the
\* value typed at the prompt.
C11_CredentialFromEnvOrPrompt ==
    pc # "main" =>
        api_key = (IF environ # EnvUnset THEN environ ELSE prompt_key)

\* the remote service was touched: a call of the SDK was made, a session
\* was created or a message was handed to send
RemoteTouched ==
    \/ \E c \in CallNames : calls[c] # "none"
    \/ n_sends # 0
    \/ n_sessions # 0
    \/ chat # NoChat
    \/ request # NoRequest

\* C12: with a credential the format validator rejects, setup ends the
\* process with exit code 1, and at no point of the run is the client
\* configured, the verification call made, a session created or a send made.
C12_InvalidFormatNoRemote ==
    ~ validate_api_key(api_key)
        => /\ ~ RemoteTouched
           /\ pc # "start" => (pc = "done" /\ exit_code = 1)

\* C12 witness: setup has rejected a credential and the process ended with 1.
C12_Witness ==
    /\ ~ validate_api_key(api_key)
    /\ pc = "done"
    /\ exit_code = 1
    /\ MSG_FORMAT_INVALID \in Range(out)
    /\ ~ RemoteTouched

\* the step's error was raised by one of the calls of setup
SetupCallFails == raised_by' \in Range(SetupSteps) /\ RemoteError'

\* C13: every failure of setup (a credential of invalid format, or an error
\* raised by configuration, the verification call, model construction or
\* session creation) ends the process with exit code 1; whenever the loop is
\* reading or a send is in progress the session handle is non-null.
C13_SetupAllOrNothing ==
    /\ [](pc \in {"input", "sending"} => State = "Ready")
    /\ [][ (SetupEnds /\ (~ validate_api_key(api_key) \/ SetupCallFails))
             => (pc' = "done" /\ exit_code' = 1 /\ chat' = NoChat) ]_vars

\* C13 witness: session creation failed in setup with an error other than
\* invalid-credential, and the process ended with 1 and no session.
C13_Witness ==
    /\ pc = "done"
    /\ exit_code = 1
    /\ raised_by = "start_chat"
    /\ NonFatalError
    /\ n_sessions = 0
    /\ chat = NoChat

\* t is l without its leading and trailing whitespace
IsTrimOf(t, l) ==
    /\ t = <<>> \/ (t[1] \notin Whitespace /\ t[Len(t)] \notin Whitespace)
    /\ \E i, j \in 0..Len(l) :
          /\ i + Len(t) + j = Len(l)
          /\ \A k \in 1..i : l[k] \in Whitespace
          /\ \A k \in (Len(l) - j + 1)..Len(l) : l[k] \in Whitespace
          /\ SubSeq(l, i + 1, i + Len(t)) = t

IsClearToken(l) == TrimmedEquals(l, W_clear)

\* line l is a message: not a control token and not empty once trimmed
IsMessage(l) == ~ IsExitToken(l) /\ ~ IsClearToken(l) /\ ~ IsBlank(l)

\* the requests handed to send that have not returned or failed yet
Outstanding == n_sends - n_done

\* C14: a line that is neither a control token nor empty once trimmed causes
\* exactly one request; any other step of the input read causes none; the
\* end of a request, failed or not, causes no request; so at most one
\* request is outstanding, and one is exactly while a send is in progress.
C14_OneRequestPerMessage ==
    /\ [][ /\ (ReadsLine /\ IsMessage(line'))
               => (n_sends' = n_sends + 1 /\ pc' = "sending"
                   /\ IsTrimOf(request'.text, line'))
           /\ (pc = "input" /\ ~ (ReadsLine /\ IsMessage(line')))
               => (n_sends' = n_sends /\ request' = request /\ pc' # "sending"
                   /\ calls'["send_message"] = calls["send_message"])
           /\ (pc = "sending")
               => (n_sends' = n_sends /\ request' = request /\ pc' # "sending"
                   /\ n_done' = n_done + 1)
         ]_vars
    /\ [](Outstanding \in {0, 1} /\ ((pc = "sending") <=> (Outstanding = 1)))

\* C14 witness: a turn failed, and the second request is the one of the next
\* message line, the only one outstanding.
C14_Witness ==
    /\ pc = "sending"
    /\ calls["send_message"] = "raised"
    /\ n_sends = 2
    /\ n_done = 1
    /\ IsMessage(line)

\* the lines that tell where to obtain a valid credential
Hints == {MSG_VISIT, MSG_GET_KEY, MSG_IF_KEY_ISSUE}

\* C15: when the process ends with exit code 1, a line telling where to
\* obtain a valid credential was printed by the step that ended it.
C15_HintBeforeExit1 ==
    exit_code = 1 => \E h \in Hints : h \in Range(out)

\* the environment variable is absent, or set to the empty string
EnvAbsentOrEmpty == environ = EnvUnset \/ environ = <<>>

\* the resolver's step, with `absent` the condition under which it asks
ResolverStep(absent) ==
    (pc = "resolve" /\ pc' = "resolved")
        => /\ (dotenv' # dotenv)
               => /\ absent
                  /\ TrimmedEquals(save_answer, W_y)
                  /\ raised_by' # "write"
                  /\ IsTrimOf(returned', prompt_key)
                  /\ dotenv' = Append(dotenv, <<"GEMINI_API_KEY", returned'>>)
           /\ (absent /\ TrimmedEquals(save_answer, W_y) /\ raised_by' = "none")
               => dotenv' # dotenv
           /\ (raised_by' = "write")
               => /\ dotenv' = dotenv
                  /\ MSG_COULD_NOT_SAVE \in Range(out')
                  /\ IsTrimOf(returned', prompt_key)
           /\ exit_code' = Running
           /\ returned' # NotReturned
           /\ absent => IsTrimOf(returned', prompt_key)

\* C16 as stated: the file is written only when the environment variable is
\* absent and the answer is 'y' once trimmed, in any case; a failed write is
\* reported, the process goes on and the entered credential is returned.
C16_SavesOnlyWhenAbsentAndYes ==
    [][ ResolverStep(environ = EnvUnset) ]_vars

\* C16 amended: the file is written only when the environment variable is
\* absent or empty and the answer is 'y' once trimmed, in any case; a failed
\* write is reported, the process goes on and the entered credential is
\* returned.
C16_SavesOnlyWhenAbsentOrEmptyAndYes ==
    [][ ResolverStep(EnvAbsentOrEmpty) ]_vars

\* C16 witness: the variable was absent, the answer was " Y ", the write
\* failed; the file is as before and the typed key was returned.
C16_Witness ==
    /\ pc = "resolved"
    /\ raised_by = "write"
    /\ save_answer = <<" ", "Y", " ">>
    /\ returned = TypedKey
    /\ dotenv = <<>>
    /\ MSG_COULD_NOT_SAVE \in Range(out)
    /\ exit_code = Running

\* the step is a clear whose model construction or session creation raises
\* an error other than an interruption
ClearFails ==
    /\ pc = "input"
    /\ raised_by' \in {"GenerativeModel", "start_chat"}
    /\ RemoteError'

\* C17: when creating the fresh session for 'clear' raises an error other
\* than an interruption, the session and its history are as before, the
\* reset confirmation is not printed, an error line is, and the loop reads
\* again; the next send is made on that session with that history.
C17_FailedClearKeepsSession ==
    [][ /\ ClearFails
            => /\ chat' = chat
               /\ n_sessions' = n_sessions
               /\ reset_mark' = reset_mark
               /\ MSG_RESET \notin Range(out')
               /\ MSG_AN_ERROR \in Range(out')
               /\ pc' = "input"
               /\ exit_code' = Running
        /\ (pc = "input" /\ pc' = "sending")
            => (request'.sid = chat.id /\ request'.history = chat.history)
      ]_vars

\* C17 witness: after a turn, session creation failed on clear, and the next
\* message is being sent on the first session with the turn in its history.
C17_Witness ==
    /\ pc = "sending"
    /\ calls["start_chat"] = "raised"
    /\ n_sessions = 1
    /\ request.sid = 1
    /\ Len(request.history) = 1

====
